---------------------------- MODULE Spec2Model ----------------------------
(***************************************************************************)
(* Failure detection, reconnect loop and pool reconciliation of the        *)
(* firehosePool Server (firehose.go).                                      *)
(*                                                                         *)
(* Goroutines are tasks with a program counter.  The Server's embedded     *)
(* mutex is the variable lock.  Time is a clock in seconds that advances   *)
(* in quanta of TickStep; timestamps are values of that clock.             *)
(***************************************************************************)
EXTENDS Integers, Sequences, FiniteSets, TLC

(* ------------------------- program constants --------------------------- *)
maxConnectionsTries == 3
connectionRetry == 5
errorsFrame == 10
maxErrors == 10

(* ------------------------------ bounds --------------------------------- *)
\* goroutines inside failure() at the same time
NCallers == 2
\* retry() goroutines alive at the same time
MaxRetryTasks == 2
\* the configured numbers of workers (cfg.Workers) are LowWorkers and
\* MaxWorkers
LowWorkers == 2
MaxWorkers == 5
\* configuration reloads in one behaviour
MaxReloads == 1
\* session / describe errors the endpoint returns in one behaviour
MaxFails == 3
\* failure() is not called again once srv.errors has reached this many
\* above maxErrors
ErrSlack == 1
\* seconds by which the clock advances in one step
TickStep == 6
\* the clock advances freely up to here; beyond, only for a sleeping task
MaxTime == 12

(* ------------------------------- tasks --------------------------------- *)
RetryTasks == {<<"retry", i>> : i \in 1..MaxRetryTasks}
Reloader == <<"reload", 1>>
Stopper == <<"shutdown", 1>>
NoTask == <<"none", 0>>
Tasks == RetryTasks \cup {Reloader, Stopper}
\* the tasks that run clientsReset()
Resetters == RetryTasks \cup {Reloader}

\* the values cfg.Workers takes
Targets == {LowWorkers, MaxWorkers}

\* the zero time.Time of a fresh Server: long before the process started
ZeroTime == 0 - (errorsFrame + 1)

VARIABLES
  lock,            \* srv.Mutex: the task holding it, or NoTask
  errors,          \* srv.errors
  lastError,       \* srv.lastError
  lastConnection,  \* srv.lastConnection
  reseting,        \* srv.reseting
  exiting,         \* srv.exiting
  failing,         \* srv.failing
  clients,         \* srv.clients: sequence of worker handles
  cfgWorkers,      \* srv.cfg.Workers
  clientCount,     \* the package-level atomic clientCount
  blocked,         \* goroutines in failure(), waiting at srv.Lock()
  pending,         \* goroutines in retry(), waiting at srv.Lock()
  pc,              \* position of every other task
  tries,           \* retry(): local tries
  wake,            \* retry(): the time its time.Sleep ends
  err,             \* result of the task's last clientsReset()
  now,             \* time.Now()
  nextId,          \* handle NewClient returns next
  stopped,         \* worker handles on which Exit() was called
  fails,           \* endpoint errors returned so far
  reloads,         \* configuration reloads so far
  \* ---- history variables (observations, never read by the program) ----
  pre,             \* Server fields when the current clientsReset() was entered
  trace,           \* calls the current clientsReset() has made
  waits,           \* arguments of time.Sleep in the current retry() loop
  ev,              \* the call that just returned (failure() or retry())
                   \* and what it found
  streak,          \* failure() calls in a row since errors was 0; -1: broken
  started,         \* go srv.retry() statements executed in that streak
  lastCall,        \* time of the previous failure() call
  synced,          \* a reconciliation succeeded since cfg.Workers was set
  sdWaiting        \* shutdown() was waiting at the lock when the loop's
                   \* current or latest time.Sleep began

srvVars == <<lock, errors, lastError, lastConnection, reseting, exiting,
             failing, clients, cfgWorkers, clientCount>>
taskVars == <<blocked, pending, pc, tries, wake, err>>
envVars == <<now, nextId, stopped, fails, reloads>>
histVars == <<pre, trace, waits, ev, streak, started, lastCall, synced,
              sdWaiting>>
vars == <<srvVars, taskVars, envVars, histVars>>

(* ------------------------------ helpers -------------------------------- *)
Range(s) == {s[i] : i \in 1..Len(s)}

\* append(s[:k], s[k+1:]...) for the 0-based index k
RemoveAt(s, k) == SubSeq(s, 1, k) \o SubSeq(s, k + 2, Len(s))

NoEv == [op |-> "none", gap |-> FALSE, stale |-> FALSE, skipped |-> FALSE,
         before |-> 0, lastBefore |-> ZeroTime, aliveBefore |-> 0,
         surplus |-> FALSE]
NoTrace == [sess |-> 0, desc |-> 0, exits |-> <<>>, at |-> ZeroTime]
NoPre == [valid |-> FALSE]
Snapshot == [valid |-> TRUE, errors |-> errors, lastError |-> lastError,
             lastConnection |-> lastConnection, reseting |-> reseting,
             exiting |-> exiting, failing |-> failing, clients |-> clients,
             cfgWorkers |-> cfgWorkers, clientCount |-> clientCount,
             nextId |-> nextId, pending |-> pending, started |-> started]


(* ------------------------- failure(), lines 22-41 ---------------------- *)
\* mutant: the operands of Sub swapped
WindowExpired_Swapped(t, last) == last - t > errorsFrame

\* line 30: time.Now().Sub(srv.lastError) > errorsFrame
WindowExpired(t, last) == t - last > errorsFrame

\* mutant: >= for >
Tripped_AtLimit(n) == n >= maxErrors

\* line 38: srv.errors > maxErrors
Tripped(n) == n > maxErrors

\* retry() goroutines that exist: waiting at the lock or past it
Alive == pending + Cardinality({r \in RetryTasks : pc[r] # "idle"})

\* a worker or connection path calls failure() and arrives at srv.Lock()
CallFailure ==
  /\ blocked < NCallers
  /\ errors < maxErrors + ErrSlack
  /\ blocked' = blocked + 1
  /\ ev' = NoEv
  /\ UNCHANGED <<srvVars, pending, pc, tries, wake, err, envVars,
                 pre, trace, waits, streak, started, lastCall, synced, sdWaiting>>

\* mutant: the guard of line 26 tests srv.reseting only
FailureBody_IgnoresExiting ==
  /\ blocked > 0
  /\ lock = NoTask
  /\ LET skip == reseting
         base == IF WindowExpired(now, lastError) THEN 0 ELSE errors
         n == base + 1
         spawn == ~skip /\ Tripped(n)
         run == IF skip THEN -1
                ELSE IF streak = 0 THEN 1
                ELSE IF streak > 0 /\ now - lastCall <= errorsFrame
                     THEN streak + 1
                ELSE -1
     IN  /\ spawn => Alive < MaxRetryTasks
         /\ errors' = IF skip THEN errors ELSE n
         /\ lastError' = IF skip THEN lastError ELSE now
         /\ pending' = IF spawn THEN pending + 1 ELSE pending
         /\ ev' = [op |-> "failure",
                   gap |-> lastCall # ZeroTime /\ now - lastCall > errorsFrame,
                   stale |-> now - lastError > errorsFrame,
                   skipped |-> skip,
                   before |-> errors,
                   lastBefore |-> IF skip THEN lastError ELSE ZeroTime,
                   aliveBefore |-> IF skip THEN Alive ELSE 0,
                   surplus |-> FALSE]
         /\ streak' = run
         /\ started' = IF run = -1 THEN 0
                       ELSE IF run = 1 THEN (IF spawn THEN 1 ELSE 0)
                       ELSE started + (IF spawn THEN 1 ELSE 0)
  /\ blocked' = blocked - 1
  /\ lastCall' = now
  /\ UNCHANGED <<lock, lastConnection, reseting, exiting, failing, clients,
                 cfgWorkers, clientCount, pc, tries, wake, err, envVars,
                 pre, trace, waits, synced, sdWaiting>>

\* failure() from srv.Lock() to the deferred srv.Unlock()
FailureBody ==
  /\ blocked > 0
  /\ lock = NoTask
  /\ LET skip == reseting \/ exiting
         base == IF WindowExpired(now, lastError) THEN 0 ELSE errors
         n == base + 1
         spawn == ~skip /\ Tripped(n)
         run == IF skip THEN -1
                ELSE IF streak = 0 THEN 1
                ELSE IF streak > 0 /\ now - lastCall <= errorsFrame
                     THEN streak + 1
                ELSE -1
     IN  /\ spawn => Alive < MaxRetryTasks
         /\ errors' = IF skip THEN errors ELSE n
         /\ lastError' = IF skip THEN lastError ELSE now
         /\ pending' = IF spawn THEN pending + 1 ELSE pending
         /\ ev' = [op |-> "failure",
                   gap |-> lastCall # ZeroTime /\ now - lastCall > errorsFrame,
                   stale |-> now - lastError > errorsFrame,
                   skipped |-> skip,
                   before |-> errors,
                   lastBefore |-> IF skip THEN lastError ELSE ZeroTime,
                   aliveBefore |-> IF skip THEN Alive ELSE 0,
                   surplus |-> FALSE]
         /\ streak' = run
         /\ started' = IF run = -1 THEN 0
                       ELSE IF run = 1 THEN (IF spawn THEN 1 ELSE 0)
                       ELSE started + (IF spawn THEN 1 ELSE 0)
  /\ blocked' = blocked - 1
  /\ lastCall' = now
  /\ UNCHANGED <<lock, lastConnection, reseting, exiting, failing, clients,
                 cfgWorkers, clientCount, pc, tries, wake, err, envVars,
                 pre, trace, waits, synced, sdWaiting>>

(* ----------------------- clientsReset(), lines 70-145 ------------------ *)
\* mutant: the excess clients are taken from the head, k = 0
RECURSIVE ShrinkLoop_Head(_, _, _)
ShrinkLoop_Head(cl, i, target) ==
  IF i > target
  THEN LET rest == ShrinkLoop_Head(RemoveAt(cl, 0), i - 1, target)
       IN  [clients |-> rest.clients, exits |-> <<cl[1]>> \o rest.exits]
  ELSE [clients |-> cl, exits |-> <<>>]

\* mutant: the loop walks the excess clients upwards, from index
\* cfg.Workers to the last one
RECURSIVE ShrinkLoop_Ascending(_, _, _)
ShrinkLoop_Ascending(cl, i, target) ==
  IF i > target
  THEN LET rest == ShrinkLoop_Ascending(RemoveAt(cl, target), i - 1, target)
       IN  [clients |-> rest.clients,
            exits |-> <<cl[target + 1]>> \o rest.exits]
  ELSE [clients |-> cl, exits |-> <<>>]

\* lines 130-134: stop and remove clients[i-1] while i > cfg.Workers
RECURSIVE ShrinkLoop(_, _, _)
ShrinkLoop(cl, i, target) ==
  IF i > target
  THEN LET k == i - 1
           rest == ShrinkLoop(RemoveAt(cl, k), i - 1, target)
       IN  [clients |-> rest.clients, exits |-> <<cl[k + 1]>> \o rest.exits]
  ELSE [clients |-> cl, exits |-> <<>>]

\* mutant: the loop stops one client short, i+1 < cfg.Workers
RECURSIVE GrowLoop_Short(_, _, _, _)
GrowLoop_Short(cl, i, target, id) ==
  IF i + 1 < target
  THEN GrowLoop_Short(Append(cl, id), i + 1, target, id + 1)
  ELSE [clients |-> cl, next |-> id]

\* mutant: the new client is put in front of the existing ones
RECURSIVE GrowLoop_Prepend(_, _, _, _)
GrowLoop_Prepend(cl, i, target, id) ==
  IF i < target
  THEN GrowLoop_Prepend(<<id>> \o cl, i + 1, target, id + 1)
  ELSE [clients |-> cl, next |-> id]

\* lines 138-140: append NewClient(srv) while i < cfg.Workers
RECURSIVE GrowLoop(_, _, _, _)
GrowLoop(cl, i, target, id) ==
  IF i < target
  THEN GrowLoop(Append(cl, id), i + 1, target, id + 1)
  ELSE [clients |-> cl, next |-> id]

\* mutant: the exiting check of lines 72-74 is missing
CREnter_NoExitCheck(t) ==
  /\ pc[t] = "cr_enter"
  /\ pre' = Snapshot
  /\ trace' = NoTrace
  /\ ev' = NoEv
  /\ reseting' = TRUE
  /\ pc' = [pc EXCEPT ![t] = "cr_session"]
  /\ UNCHANGED <<lock, errors, lastError, lastConnection, exiting, failing,
                 clients, cfgWorkers, clientCount, blocked, pending, tries,
                 wake, err, envVars, waits, streak, started, lastCall, synced, sdWaiting>>

\* lines 72-77: the exiting check, then srv.reseting = true
CREnter(t) ==
  /\ pc[t] = "cr_enter"
  /\ pre' = Snapshot
  /\ trace' = NoTrace
  /\ ev' = NoEv
  /\ IF exiting
     THEN /\ err' = [err EXCEPT ![t] = "nil"]
          /\ pc' = [pc EXCEPT ![t] = "cr_done"]
          /\ UNCHANGED reseting
     ELSE /\ reseting' = TRUE
          /\ pc' = [pc EXCEPT ![t] = "cr_session"]
          /\ UNCHANGED err
  /\ UNCHANGED <<lock, errors, lastError, lastConnection, exiting, failing,
                 clients, cfgWorkers, clientCount, blocked, pending, tries, wake, envVars,
                 waits, streak, started, lastCall, synced, sdWaiting>>

\* mutant: the session error path counts the error and also starts retry()
\* when the count is over maxErrors, as failure() does
CRSession_Spawns(t) ==
  /\ pc[t] = "cr_session"
  /\ trace' = [trace EXCEPT !.sess = @ + 1, !.at = now]
  /\ ev' = NoEv
  /\ \E ok \in BOOLEAN :
       IF ok
       THEN /\ pc' = [pc EXCEPT ![t] = "cr_describe"]
            /\ UNCHANGED <<errors, lastError, reseting, err, fails,
                           streak, started>>
       ELSE /\ fails < MaxFails
            /\ fails' = fails + 1
            /\ errors' = errors + 1
            /\ lastError' = now
            /\ reseting' = FALSE
            /\ err' = [err EXCEPT ![t] = "session"]
            /\ pc' = [pc EXCEPT ![t] = "cr_done"]
            /\ streak' = -1
            /\ started' = 0
  /\ pending' = IF pc'[t] = "cr_done" /\ Tripped(errors') /\ Alive < MaxRetryTasks
                THEN pending + 1 ELSE pending
  /\ UNCHANGED <<lock, lastConnection, exiting, failing, clients, cfgWorkers,
                 clientCount, blocked, tries, wake, now, nextId, stopped,
                 reloads,
                 pre, waits, lastCall, synced, sdWaiting>>

\* lines 83-95: session.NewSession / NewSessionWithOptions and its error path
CRSession(t) ==
  /\ pc[t] = "cr_session"
  /\ trace' = [trace EXCEPT !.sess = @ + 1, !.at = now]
  /\ ev' = NoEv
  /\ \E ok \in BOOLEAN :
       IF ok
       THEN /\ pc' = [pc EXCEPT ![t] = "cr_describe"]
            /\ UNCHANGED <<errors, lastError, reseting, err, fails,
                           streak, started>>
       ELSE /\ fails < MaxFails
            /\ fails' = fails + 1
            /\ errors' = errors + 1
            /\ lastError' = now
            /\ reseting' = FALSE
            /\ err' = [err EXCEPT ![t] = "session"]
            /\ pc' = [pc EXCEPT ![t] = "cr_done"]
            /\ streak' = -1
            /\ started' = 0
  /\ UNCHANGED <<lock, lastConnection, exiting, failing, clients, cfgWorkers,
                 clientCount, blocked, pending, tries, wake, now, nextId, stopped,
                 reloads,
                 pre, waits, lastCall, synced, sdWaiting>>

\* mutant: reseting is cleared by a statement at the end of the function
\* instead of the deferred one of line 77, so the query error path keeps it
CRDescribe_NoDefer(t) ==
  /\ pc[t] = "cr_describe"
  /\ trace' = [trace EXCEPT !.desc = @ + 1, !.at = now]
  /\ ev' = NoEv
  /\ \E ok \in BOOLEAN :
       IF ok
       THEN /\ lastConnection' = now
            /\ errors' = 0
            /\ failing' = FALSE
            /\ pc' = [pc EXCEPT ![t] = "cr_resize"]
            /\ streak' = 0
            /\ UNCHANGED <<lastError, reseting, err, fails>>
       ELSE /\ fails < MaxFails
            /\ fails' = fails + 1
            /\ errors' = errors + 1
            /\ lastError' = now
            /\ reseting' = reseting
            /\ err' = [err EXCEPT ![t] = "describe"]
            /\ pc' = [pc EXCEPT ![t] = "cr_done"]
            /\ streak' = -1
            /\ UNCHANGED <<lastConnection, failing>>
  /\ started' = 0
  /\ UNCHANGED <<lock, exiting, clients, cfgWorkers, clientCount, blocked,
                 pending, tries, wake,
                 now, nextId, stopped, reloads, pre, waits, lastCall, synced, sdWaiting>>

\* mutant: line 118 is missing, a successful call keeps the error count
CRDescribe_KeepsErrors(t) ==
  /\ pc[t] = "cr_describe"
  /\ trace' = [trace EXCEPT !.desc = @ + 1, !.at = now]
  /\ ev' = NoEv
  /\ \E ok \in BOOLEAN :
       IF ok
       THEN /\ lastConnection' = now
            /\ errors' = errors
            /\ failing' = FALSE
            /\ pc' = [pc EXCEPT ![t] = "cr_resize"]
            /\ streak' = 0
            /\ UNCHANGED <<lastError, reseting, err, fails>>
       ELSE /\ fails < MaxFails
            /\ fails' = fails + 1
            /\ errors' = errors + 1
            /\ lastError' = now
            /\ reseting' = FALSE
            /\ err' = [err EXCEPT ![t] = "describe"]
            /\ pc' = [pc EXCEPT ![t] = "cr_done"]
            /\ streak' = -1
            /\ UNCHANGED <<lastConnection, failing>>
  /\ started' = 0
  /\ UNCHANGED <<lock, exiting, clients, cfgWorkers, clientCount, blocked,
                 pending, tries, wake,
                 now, nextId, stopped, reloads, pre, waits, lastCall, synced, sdWaiting>>

\* lines 97-119: DescribeDeliveryStream, its error path, and the success
\* bookkeeping
CRDescribe(t) ==
  /\ pc[t] = "cr_describe"
  /\ trace' = [trace EXCEPT !.desc = @ + 1, !.at = now]
  /\ ev' = NoEv
  /\ \E ok \in BOOLEAN :
       IF ok
       THEN /\ lastConnection' = now
            /\ errors' = 0
            /\ failing' = FALSE
            /\ pc' = [pc EXCEPT ![t] = "cr_resize"]
            /\ streak' = 0
            /\ UNCHANGED <<lastError, reseting, err, fails>>
       ELSE /\ fails < MaxFails
            /\ fails' = fails + 1
            /\ errors' = errors + 1
            /\ lastError' = now
            /\ reseting' = FALSE
            /\ err' = [err EXCEPT ![t] = "describe"]
            /\ pc' = [pc EXCEPT ![t] = "cr_done"]
            /\ streak' = -1
            /\ UNCHANGED <<lastConnection, failing>>
  /\ started' = 0
  /\ UNCHANGED <<lock, exiting, clients, cfgWorkers, clientCount, blocked,
                 pending, tries, wake,
                 now, nextId, stopped, reloads, pre, waits, lastCall, synced, sdWaiting>>

\* mutant: the store of line 142 is missing, only the shrink branch
\* publishes clientCount
CRResize_NoFinalStore(t) ==
  /\ pc[t] = "cr_resize"
  /\ ev' = NoEv
  /\ LET currClients == Len(clients)
     IN  IF currClients = cfgWorkers
         THEN UNCHANGED <<clients, clientCount, nextId, stopped, trace>>
         ELSE IF currClients > cfgWorkers
         THEN LET r == ShrinkLoop(clients, currClients, cfgWorkers)
              IN  /\ clients' = r.clients
                  /\ stopped' = stopped \cup Range(r.exits)
                  /\ trace' = [trace EXCEPT !.exits = r.exits]
                  /\ clientCount' = Len(r.clients)
                  /\ UNCHANGED nextId
         ELSE LET r == GrowLoop(clients, currClients, cfgWorkers, nextId)
              IN  /\ clients' = r.clients
                  /\ nextId' = r.next
                  /\ clientCount' = clientCount
                  /\ UNCHANGED <<stopped, trace>>
  /\ reseting' = FALSE
  /\ err' = [err EXCEPT ![t] = "nil"]
  /\ pc' = [pc EXCEPT ![t] = "cr_done"]
  /\ synced' = TRUE
  /\ UNCHANGED <<lock, errors, lastError, lastConnection, exiting, failing,
                 cfgWorkers, blocked, pending, tries, wake, now, fails, reloads,
                 pre, waits, streak, started, lastCall, sdWaiting>>

\* mutant: the early return of lines 124-126 is missing and the loop of
\* line 138 runs while i <= cfg.Workers
CRResize_NoEqualCase(t) ==
  /\ pc[t] = "cr_resize"
  /\ ev' = NoEv
  /\ LET currClients == Len(clients)
     IN  IF currClients > cfgWorkers
         THEN LET r == ShrinkLoop(clients, currClients, cfgWorkers)
              IN  /\ clients' = r.clients
                  /\ stopped' = stopped \cup Range(r.exits)
                  /\ trace' = [trace EXCEPT !.exits = r.exits]
                  /\ clientCount' = Len(r.clients)
                  /\ UNCHANGED nextId
         ELSE LET r == GrowLoop(clients, currClients, cfgWorkers + 1, nextId)
              IN  /\ clients' = r.clients
                  /\ nextId' = r.next
                  /\ clientCount' = Len(r.clients)
                  /\ UNCHANGED <<stopped, trace>>
  /\ reseting' = FALSE
  /\ err' = [err EXCEPT ![t] = "nil"]
  /\ pc' = [pc EXCEPT ![t] = "cr_done"]
  /\ synced' = TRUE
  /\ UNCHANGED <<lock, errors, lastError, lastConnection, exiting, failing,
                 cfgWorkers, blocked, pending, tries, wake, now, fails, reloads,
                 pre, waits, streak, started, lastCall, sdWaiting>>

\* lines 121-144: resize srv.clients to cfg.Workers, publish clientCount,
\* and the deferred srv.reseting = false
CRResize(t) ==
  /\ pc[t] = "cr_resize"
  /\ ev' = NoEv
  /\ LET currClients == Len(clients)
     IN  IF currClients = cfgWorkers
         THEN UNCHANGED <<clients, clientCount, nextId, stopped, trace>>
         ELSE IF currClients > cfgWorkers
         THEN LET r == ShrinkLoop(clients, currClients, cfgWorkers)
              IN  /\ clients' = r.clients
                  /\ stopped' = stopped \cup Range(r.exits)
                  /\ trace' = [trace EXCEPT !.exits = r.exits]
                  /\ clientCount' = Len(r.clients)
                  /\ UNCHANGED nextId
         ELSE LET r == GrowLoop(clients, currClients, cfgWorkers, nextId)
              IN  /\ clients' = r.clients
                  /\ nextId' = r.next
                  /\ clientCount' = Len(r.clients)
                  /\ UNCHANGED <<stopped, trace>>
  /\ reseting' = FALSE
  /\ err' = [err EXCEPT ![t] = "nil"]
  /\ pc' = [pc EXCEPT ![t] = "cr_done"]
  /\ synced' = TRUE
  /\ UNCHANGED <<lock, errors, lastError, lastConnection, exiting, failing,
                 cfgWorkers, blocked, pending, tries, wake, now, fails, reloads,
                 pre, waits, streak, started, lastCall, sdWaiting>>

(* -------------------------- retry(), lines 43-68 ----------------------- *)
\* mutant: > for >=
SleepFor_Late(n) ==
  IF n > maxConnectionsTries THEN connectionRetry * 2 ELSE connectionRetry

\* lines 62-66: the argument of time.Sleep after `tries` failed attempts
SleepFor(n) ==
  IF n >= maxConnectionsTries THEN connectionRetry * 2 ELSE connectionRetry

\* the loop slot a retry() goroutine takes when it passes the guard
FreeSlot ==
  LET idle == {i \in 1..MaxRetryTasks : pc[<<"retry", i>>] = "idle"}
  IN  <<"retry", CHOOSE i \in idle : \A j \in idle : i <= j>>

\* mutant: retry() does not wait for the lock
RetryEnter_NoLock ==
  /\ pending > 0
  /\ \E i \in 1..MaxRetryTasks : pc[<<"retry", i>>] = "idle"
  /\ pending' = pending - 1
  /\ ev' = NoEv
  /\ IF failing
     THEN UNCHANGED <<lock, failing, tries, pc>>
     ELSE /\ lock' = FreeSlot
          /\ failing' = TRUE
          /\ tries' = [tries EXCEPT ![FreeSlot] = 0]
          /\ pc' = [pc EXCEPT ![FreeSlot] = "cr_enter"]
  /\ UNCHANGED <<errors, lastError, lastConnection, reseting, exiting,
                 clients, cfgWorkers, clientCount, blocked, wake, err, envVars,
                 pre, trace, waits, streak, started, lastCall, synced, sdWaiting>>

\* lines 44-52: srv.Lock(), the failing guard, failing = true, tries = 0
RetryEnter ==
  /\ pending > 0
  /\ lock = NoTask
  /\ pending' = pending - 1
  /\ ev' = NoEv
  /\ IF failing
     THEN UNCHANGED <<lock, failing, tries, pc>>
     ELSE /\ lock' = FreeSlot
          /\ failing' = TRUE
          /\ tries' = [tries EXCEPT ![FreeSlot] = 0]
          /\ pc' = [pc EXCEPT ![FreeSlot] = "cr_enter"]
  /\ UNCHANGED <<errors, lastError, lastConnection, reseting, exiting,
                 clients, cfgWorkers, clientCount, blocked, wake, err, envVars,
                 pre, trace, waits, streak, started, lastCall, synced, sdWaiting>>

\* mutant: the loop gives up after maxConnectionsTries failed attempts
RetryAfter_GivesUp(r) ==
  /\ pc[r] = "cr_done"
  /\ ev' = IF err[r] = "nil"
            THEN [NoEv EXCEPT !.op = "retry_return",
                              !.surplus = /\ ~pre.exiting
                                          /\ tries[r] = 0
                                          /\ pre.started > 1
                                          /\ pending > 0]
            ELSE NoEv
  /\ pre' = NoPre
  /\ trace' = NoTrace
  /\ IF err[r] = "nil" \/ tries[r] + 1 >= maxConnectionsTries
     THEN /\ lock' = NoTask
          /\ pc' = [pc EXCEPT ![r] = "idle"]
          /\ tries' = [tries EXCEPT ![r] = 0]
          /\ waits' = [waits EXCEPT ![r] = <<>>]
          /\ sdWaiting' = FALSE
          /\ UNCHANGED wake
     ELSE /\ tries' = [tries EXCEPT ![r] = @ + 1]
          /\ wake' = [wake EXCEPT ![r] = now + SleepFor(tries[r] + 1)]
          /\ waits' = [waits EXCEPT ![r] = Append(@, SleepFor(tries[r] + 1))]
          /\ pc' = [pc EXCEPT ![r] = "r_sleep"]
          /\ sdWaiting' = (pc[Stopper] = "s_lock")
          /\ UNCHANGED lock
  /\ err' = [err EXCEPT ![r] = "none"]
  /\ UNCHANGED <<errors, lastError, lastConnection, reseting, exiting,
                 failing, clients, cfgWorkers, clientCount, blocked, pending,
                 envVars, streak, started, lastCall, synced>>

\* lines 55-66: return on nil (the deferred Unlock runs), else count the
\* attempt and go to sleep
RetryAfter(r) ==
  /\ pc[r] = "cr_done"
  /\ ev' = IF err[r] = "nil"
            THEN [NoEv EXCEPT !.op = "retry_return",
                              !.surplus = /\ ~pre.exiting
                                          /\ tries[r] = 0
                                          /\ pre.started > 1
                                          /\ pending > 0]
            ELSE NoEv
  /\ pre' = NoPre
  /\ trace' = NoTrace
  /\ IF err[r] = "nil"
     THEN /\ lock' = NoTask
          /\ pc' = [pc EXCEPT ![r] = "idle"]
          /\ tries' = [tries EXCEPT ![r] = 0]
          /\ waits' = [waits EXCEPT ![r] = <<>>]
          /\ sdWaiting' = FALSE
          /\ UNCHANGED wake
     ELSE /\ tries' = [tries EXCEPT ![r] = @ + 1]
          /\ wake' = [wake EXCEPT ![r] = now + SleepFor(tries[r] + 1)]
          /\ waits' = [waits EXCEPT ![r] = Append(@, SleepFor(tries[r] + 1))]
          /\ pc' = [pc EXCEPT ![r] = "r_sleep"]
          /\ sdWaiting' = (pc[Stopper] = "s_lock")
          /\ UNCHANGED lock
  /\ err' = [err EXCEPT ![r] = "none"]
  /\ UNCHANGED <<errors, lastError, lastConnection, reseting, exiting,
                 failing, clients, cfgWorkers, clientCount, blocked, pending,
                 envVars, streak, started, lastCall, synced>>

\* time.Sleep returns; the for loop calls clientsReset() again
RetryWake(r) ==
  /\ pc[r] = "r_sleep"
  /\ now >= wake[r]
  /\ pc' = [pc EXCEPT ![r] = "cr_enter"]
  /\ wake' = [wake EXCEPT ![r] = 0]
  /\ ev' = NoEv
  /\ UNCHANGED <<srvVars, blocked, pending, tries, err, envVars,
                 pre, trace, waits, streak, started, lastCall, synced, sdWaiting>>

(* --------------- callers outside firehose.go (from the design) --------- *)
\* a standalone clientsReset() for the initial connect or a changed
\* configuration: takes the lock, installs cfg.Workers = w, reconciles
ReloadEnter(w) ==
  /\ pc[Reloader] = "idle"
  /\ reloads < MaxReloads
  /\ lock = NoTask
  /\ lock' = Reloader
  /\ cfgWorkers' = w
  /\ reloads' = reloads + 1
  /\ pc' = [pc EXCEPT ![Reloader] = "cr_enter"]
  /\ synced' = FALSE
  /\ ev' = NoEv
  /\ UNCHANGED <<errors, lastError, lastConnection, reseting, exiting,
                 failing, clients, clientCount, blocked, pending, tries, wake,
                 err, now, nextId, stopped, fails,
                 pre, trace, waits, streak, started, lastCall, sdWaiting>>

\* the standalone clientsReset() has returned: release the lock
ReloadReturn ==
  /\ pc[Reloader] = "cr_done"
  /\ lock' = NoTask
  /\ pc' = [pc EXCEPT ![Reloader] = "idle"]
  /\ err' = [err EXCEPT ![Reloader] = "none"]
  /\ pre' = NoPre
  /\ trace' = NoTrace
  /\ ev' = NoEv
  /\ UNCHANGED <<errors, lastError, lastConnection, reseting, exiting,
                 failing, clients, cfgWorkers, clientCount, blocked, pending,
                 tries, wake, envVars, waits, streak, started, lastCall, synced, sdWaiting>>

\* shutdown() is called and arrives at the lock
ShutdownCall ==
  /\ pc[Stopper] = "idle"
  /\ pc' = [pc EXCEPT ![Stopper] = "s_lock"]
  /\ ev' = NoEv
  /\ UNCHANGED <<srvVars, blocked, pending, tries, wake, err, envVars,
                 pre, trace, waits, streak, started, lastCall, synced, sdWaiting>>

\* shutdown() under the lock: set exiting, stop all current workers
ShutdownBody ==
  /\ pc[Stopper] = "s_lock"
  /\ lock = NoTask
  /\ exiting' = TRUE
  /\ stopped' = stopped \cup Range(clients)
  /\ pc' = [pc EXCEPT ![Stopper] = "done"]
  /\ ev' = NoEv
  /\ UNCHANGED <<lock, errors, lastError, lastConnection, reseting, failing,
                 clients, cfgWorkers, clientCount, blocked, pending, tries,
                 wake, err, now, nextId, fails, reloads,
                 pre, trace, waits, streak, started, lastCall, synced, sdWaiting>>

(* ------------------------------- time ---------------------------------- *)
Tick ==
  /\ \/ now + TickStep <= MaxTime
     \/ \E r \in RetryTasks : pc[r] = "r_sleep" /\ wake[r] > now
  /\ now' = now + TickStep
  /\ ev' = NoEv
  /\ UNCHANGED <<srvVars, taskVars, nextId, stopped, fails, reloads,
                 pre, trace, waits, streak, started, lastCall, synced, sdWaiting>>

(* --------------------------- specification ----------------------------- *)
Init ==
  /\ lock = NoTask
  /\ errors = 0
  /\ lastError = ZeroTime
  /\ lastConnection = ZeroTime
  /\ reseting = FALSE
  /\ exiting = FALSE
  /\ failing = FALSE
  /\ clients = <<>>
  /\ cfgWorkers \in Targets
  /\ clientCount = 0
  /\ blocked = 0
  /\ pending = 0
  /\ pc = [t \in Tasks |-> "idle"]
  /\ tries = [r \in RetryTasks |-> 0]
  /\ wake = [r \in RetryTasks |-> 0]
  /\ err = [t \in Resetters |-> "none"]
  /\ now = 0
  /\ nextId = 1
  /\ stopped = {}
  /\ fails = 0
  /\ reloads = 0
  /\ pre = NoPre
  /\ trace = NoTrace
  /\ waits = [r \in RetryTasks |-> <<>>]
  /\ ev = NoEv
  /\ streak = 0
  /\ started = 0
  /\ lastCall = ZeroTime
  /\ synced = FALSE
  /\ sdWaiting = FALSE

Next ==
  \/ CallFailure
  \/ FailureBody
  \/ RetryEnter
  \/ \E t \in Resetters : CREnter(t)
  \/ \E t \in Resetters : CRSession(t)
  \/ \E t \in Resetters : CRDescribe(t)
  \/ \E t \in Resetters : CRResize(t)
  \/ \E r \in RetryTasks : RetryAfter(r)
  \/ \E r \in RetryTasks : RetryWake(r)
  \/ \E w \in Targets : ReloadEnter(w)
  \/ ReloadReturn
  \/ ShutdownCall
  \/ ShutdownBody
  \/ Tick

Spec == Init /\ [][Next]_vars

(* ------------------------------ claims --------------------------------- *)
\* the retry() goroutines past the failing guard
Looping == {r \in RetryTasks : pc[r] # "idle"}

\* a clientsReset() of task t has just returned having contacted the endpoint
\* with success
Reconciled(t) ==
  /\ pc[t] = "cr_done"
  /\ pre.valid
  /\ ~pre.exiting
  /\ err[t] = "nil"

\* C1: at every point at most one retry() goroutine is past the failing
\* guard, however many were started and however many errors the running
\* loop has counted.
C1_AtMostOneLoop == Cardinality(Looping) <= 1

C1_Witness ==
  /\ \E r \in RetryTasks : pc[r] = "r_sleep"
  /\ pending >= 1
  /\ errors > maxErrors + 1

\* C2: a failure() call that waits at the lock while a retry() loop sleeps
\* between attempts can take the lock, that is, the sleeping loop does not
\* hold it.
C2_FailureNeverBlocks ==
  (blocked > 0 /\ \E r \in RetryTasks : pc[r] = "r_sleep") => lock = NoTask

\* C3: in a run of failure() calls that starts from errors = 0 and stays in
\* one error window, the first maxErrors calls start no retry() and the
\* (maxErrors+1)-th call starts exactly one.
C3_ThresholdTrigger ==
  streak >= 0 =>
    /\ streak <= maxErrors => started = 0
    /\ streak = maxErrors + 1 => started = 1

C3_Witness ==
  /\ streak = maxErrors + 1
  /\ started = 1
  /\ pending = 1
  /\ blocked >= 1

\* C4 as stated: when more than errorsFrame passed since the previous
\* failure() call, errors is 1 right after the call, whatever ran in between
\* (read for the calls that count, those that find neither reseting nor
\* exiting).
C4_WindowResetOriginal ==
  (ev.op = "failure" /\ ev.gap /\ ~ev.skipped) => errors = 1

\* C4: when more than errorsFrame passed since srv.lastError was last set
\* (by failure() or by a failed clientsReset()) and the call finds neither
\* reseting nor exiting, errors is 1 right after the failure() call.
C4_WindowReset ==
  (ev.op = "failure" /\ ev.stale /\ ~ev.skipped) => errors = 1

C4_Witness ==
  /\ ev.op = "failure"
  /\ ev.stale
  /\ ~ev.skipped
  /\ ev.gap
  /\ ev.before >= 2
  /\ errors = 1

\* C5 as stated: the first maxConnectionsTries waits of a loop are
\* connectionRetry, the later ones twice that.
C5_BackoffOriginal ==
  \A r \in RetryTasks : \A i \in 1..Len(waits[r]) :
    waits[r][i] = IF i <= maxConnectionsTries
                  THEN connectionRetry ELSE 2 * connectionRetry

\* C5: the waits after the first maxConnectionsTries - 1 failed attempts of
\* a loop are connectionRetry; the wait after the maxConnectionsTries-th and
\* every later failed attempt is twice that.
C5_Backoff ==
  \A r \in RetryTasks : \A i \in 1..Len(waits[r]) :
    waits[r][i] = IF i < maxConnectionsTries
                  THEN connectionRetry ELSE 2 * connectionRetry

C5_Witness ==
  \E r \in RetryTasks :
    /\ pc[r] = "r_sleep"
    /\ Len(waits[r]) >= maxConnectionsTries
    /\ wake[r] = now + 2 * connectionRetry

\* C6: when shutdown() was already waiting at the lock as a retry() loop
\* went to sleep after a failed attempt, exiting is true once that sleep is
\* over: the loop sees it at its next iteration and opens no session.
C6_ShutdownNotStarved ==
  \A r \in RetryTasks :
    (sdWaiting /\ pc[r] \in {"cr_enter", "cr_session", "cr_describe"})
      => (exiting /\ trace.sess = 0)

\* C7: a clientsReset() entered with exiting set returns nil, opens no
\* session, describes no stream, and leaves clients, errors, lastError,
\* lastConnection and reseting as they were.
C7_ShutdownWins ==
  \A t \in Resetters :
    (pc[t] = "cr_done" /\ pre.valid /\ pre.exiting) =>
      /\ err[t] = "nil"
      /\ trace.sess = 0
      /\ trace.desc = 0
      /\ trace.exits = <<>>
      /\ nextId = pre.nextId
      /\ clients = pre.clients
      /\ errors = pre.errors
      /\ lastError = pre.lastError
      /\ lastConnection = pre.lastConnection
      /\ reseting = pre.reseting

C7_Witness ==
  \E t \in RetryTasks :
    /\ pc[t] = "cr_done"
    /\ pre.valid
    /\ pre.exiting
    /\ errors > maxErrors
    /\ Len(clients) > 0

\* C8 as stated: whenever reseting and failing are both false, the number
\* of clients is cfg.Workers.
C8_PoolSizeOriginal ==
  (~reseting /\ ~failing) => Len(clients) = cfgWorkers

\* C8: whenever a reconciliation has succeeded since cfg.Workers was last
\* set, and reseting, failing and exiting are all false, the number of
\* clients is cfg.Workers.
C8_PoolSize ==
  (synced /\ ~reseting /\ ~failing /\ ~exiting) => Len(clients) = cfgWorkers

C8_Witness ==
  /\ synced
  /\ ~reseting
  /\ ~failing
  /\ ~exiting
  /\ lock = NoTask
  /\ errors > 0
  /\ Len(clients) = MaxWorkers

\* C9 as stated: reconciling 5 clients to 2 stops the clients at indices 4
\* and 3, in that order, and leaves the clients at indices 0, 1, 2 in place.
C9_ShrinkOriginal ==
  \A t \in Resetters :
    (Reconciled(t) /\ Len(pre.clients) = 5 /\ pre.cfgWorkers = 2) =>
      /\ trace.exits = <<pre.clients[5], pre.clients[4]>>
      /\ clients = SubSeq(pre.clients, 1, 3)
      /\ Range(clients) \cap stopped = {}

\* C9: reconciling 5 clients to 2 stops the clients at indices 4, 3 and 2,
\* in that order, and leaves the clients at indices 0 and 1 in place,
\* not stopped.
C9_Shrink ==
  \A t \in Resetters :
    (Reconciled(t) /\ Len(pre.clients) = 5 /\ pre.cfgWorkers = 2) =>
      /\ trace.exits = <<pre.clients[5], pre.clients[4], pre.clients[3]>>
      /\ clients = SubSeq(pre.clients, 1, 2)
      /\ Range(clients) \cap stopped = {}

C9_Witness ==
  \E t \in Resetters :
    /\ Reconciled(t)
    /\ Len(pre.clients) = 5
    /\ pre.cfgWorkers = 2
    /\ Len(clients) = 2

\* C10: reconciling n clients to a target m > n appends exactly m - n
\* clients that NewClient has just made after the n existing ones, which
\* keep their places, and stops no client.
C10_Grow ==
  \A t \in Resetters :
    (Reconciled(t) /\ Len(pre.clients) < pre.cfgWorkers) =>
      LET n == Len(pre.clients)
          m == pre.cfgWorkers
      IN  /\ Len(clients) = m
          /\ SubSeq(clients, 1, n) = pre.clients
          /\ \A i \in (n + 1)..m : clients[i] = pre.nextId + (i - n - 1)
          /\ nextId = pre.nextId + (m - n)
          /\ trace.exits = <<>>
          /\ stopped \cap Range(clients) = {}

C10_Witness ==
  \E t \in Resetters :
    /\ Reconciled(t)
    /\ Len(pre.clients) = 2
    /\ pre.cfgWorkers = 5
    /\ Len(clients) = 5
    /\ nextId = pre.nextId + 3

\* C11: a successful reconciliation that finds as many clients as
\* cfg.Workers calls no Exit() and no NewClient and leaves srv.clients the
\* same sequence.
C11_Idempotent ==
  \A t \in Resetters :
    (Reconciled(t) /\ Len(pre.clients) = pre.cfgWorkers) =>
      /\ clients = pre.clients
      /\ trace.exits = <<>>
      /\ nextId = pre.nextId

C11_Witness ==
  \E t \in Resetters :
    /\ Reconciled(t)
    /\ Len(pre.clients) = pre.cfgWorkers
    /\ Len(clients) = MaxWorkers
    /\ trace.desc = 1

\* C12: when a retry() that set srv.failing returns, srv.failing is false,
\* also when the nil came from the exiting short-circuit of clientsReset().
C12_FailingCleared == ev.op = "retry_return" => ~failing

\* C13: when clientsReset() gets to the endpoint and both the session and the
\* DescribeDeliveryStream call succeed, it returns with errors = 0, failing
\* false and lastConnection the time of the successful query, whatever the
\* three were before.
C13_SuccessBookkeeping ==
  \A t \in Resetters :
    Reconciled(t) =>
      /\ trace.sess = 1 /\ trace.desc = 1
      /\ errors = 0
      /\ ~failing
      /\ lastConnection = trace.at

C13_Witness ==
  \E t \in Resetters :
    /\ Reconciled(t)
    /\ pre.errors > maxErrors
    /\ pre.failing
    /\ pre.lastConnection # ZeroTime
    /\ pre.lastConnection < trace.at
    /\ errors = 0 /\ ~failing /\ lastConnection = now

\* C14: when the session or the DescribeDeliveryStream call fails,
\* clientsReset() returns that error with errors one higher and lastError the
\* time of the failed call; srv.clients, lastConnection and failing are as
\* before, and no retry() goroutine has been started.
C14_ErrorPath ==
  \A t \in Resetters :
    (pc[t] = "cr_done" /\ pre.valid /\ err[t] # "nil") =>
      /\ err[t] = (IF trace.desc = 0 THEN "session" ELSE "describe")
      /\ errors = pre.errors + 1
      /\ lastError = trace.at
      /\ clients = pre.clients
      /\ clientCount = pre.clientCount
      /\ lastConnection = pre.lastConnection
      /\ failing = pre.failing
      /\ pending = pre.pending
      /\ trace.exits = <<>> /\ nextId = pre.nextId

C14_Witness ==
  /\ pc[Reloader] = "cr_done"
  /\ pre.valid
  /\ err[Reloader] = "describe"
  /\ errors = pre.errors + 1
  /\ Tripped(errors)
  /\ lastError = now /\ pre.lastError < now
  /\ pending = 0
  /\ Len(clients) > 0

\* C15: a failure() call that finds reseting or exiting true changes neither
\* errors nor lastError and starts no retry() goroutine.
\* (failure() writes neither flag, so what the call found is what the state
\* after it shows.)
C15_SkippedIsNoOp ==
  (ev.op = "failure" /\ (reseting \/ exiting)) =>
    /\ errors = ev.before
    /\ lastError = ev.lastBefore
    /\ Alive = ev.aliveBefore

C15_Witness ==
  /\ ev.op = "failure"
  /\ ev.skipped
  /\ exiting
  /\ ev.stale
  /\ errors = maxErrors
  /\ Alive = 0

\* C16: srv.reseting is false whenever clientsReset() has returned, on the
\* success path and on both error paths, so no failure() call is skipped
\* because of a flag left over from a finished call.
C16_ResetingCleared ==
  /\ \A t \in Resetters : pc[t] \in {"cr_done", "r_sleep"} => ~reseting
  /\ lock = NoTask => ~reseting
  /\ (ev.op = "failure" /\ ev.skipped) => exiting

C16_Witness ==
  \E r \in RetryTasks :
    /\ pc[r] = "cr_done"
    /\ pre.valid
    /\ err[r] = "describe"
    /\ tries[r] = 1
    /\ waits[r] = <<connectionRetry>>
    /\ ~reseting

(* ------------------------------ fairness ------------------------------- *)
\* A goroutine that holds the mutex keeps running: the calls of
\* clientsReset() return, time.Sleep ends, and the clock advances.
FairSpec ==
  /\ Spec
  /\ WF_vars(Tick)
  /\ \A t \in Resetters :
       /\ WF_vars(CREnter(t))
       /\ WF_vars(CRSession(t))
       /\ WF_vars(CRDescribe(t))
       /\ WF_vars(CRResize(t))
  /\ \A r \in RetryTasks : WF_vars(RetryAfter(r)) /\ WF_vars(RetryWake(r))

\* C17 as written: whenever the loop of retry() returns, errors is 0 and
\* there are cfg.Workers clients.
C17_RetryOriginal ==
  ev.op = "retry_return" => (errors = 0 /\ Len(clients) = cfgWorkers)

\* a retry() leaves its loop only with a nil from clientsReset(), however
\* many attempts it has made
LoopReturnsOnNilOnly ==
  [][\A r \in RetryTasks :
       (pc[r] # "idle" /\ pc'[r] = "idle") => err[r] = "nil"]_vars

\* C17: the loop of retry() has no attempt limit and no error return: it
\* ends only with a nil from clientsReset(); once the endpoint stops failing
\* the loop returns, and unless exiting was set it returns with errors = 0
\* and cfg.Workers clients.
C17_RetryUntilSuccess ==
  /\ LoopReturnsOnNilOnly
  /\ [](ev.op = "retry_return" =>
          (exiting \/ (errors = 0 /\ Len(clients) = cfgWorkers)))
  /\ (Looping # {}) ~> (Looping = {})

C17_Witness ==
  /\ ev.op = "retry_return"
  /\ ~exiting
  /\ fails = MaxFails
  /\ errors = 0
  /\ Len(clients) = cfgWorkers
  /\ now >= 2 * connectionRetry + 2 * connectionRetry

\* C18: a successful reconciliation with n clients and cfg.Workers = m < n
\* calls Exit() on the clients at indices n-1, n-2, ..., m in that order,
\* each once, removes them, and keeps clients 0..m-1 in order and without
\* an Exit() call.
C18_ShrinkFromTail ==
  \A t \in Resetters :
    LET n == Len(pre.clients)
        m == pre.cfgWorkers
    IN  (Reconciled(t) /\ m < n) =>
          /\ Len(trace.exits) = n - m
          /\ \A j \in 1..(n - m) : trace.exits[j] = pre.clients[n - j + 1]
          /\ clients = SubSeq(pre.clients, 1, m)
          /\ \A i \in 1..m : clients[i] \notin stopped

C18_Witness ==
  \E t \in Resetters :
    /\ Reconciled(t)
    /\ pre.cfgWorkers = LowWorkers
    /\ Len(pre.clients) = MaxWorkers
    /\ Len(trace.exits) = MaxWorkers - LowWorkers
    /\ trace.exits[1] = pre.clients[MaxWorkers]
    /\ Len(clients) = LowWorkers

\* C19: a clientsReset() that contacted the endpoint and returned nil leaves
\* exactly cfg.Workers clients, whether it began with fewer, as many or more,
\* and when it changed the number of clients the atomic clientCount holds
\* the new number.
C19_TargetReached ==
  \A t \in Resetters :
    Reconciled(t) =>
      /\ cfgWorkers = pre.cfgWorkers
      /\ Len(clients) = cfgWorkers
      /\ Len(pre.clients) # Len(clients) => clientCount = Len(clients)

C19_Witness ==
  \E t \in Resetters :
    /\ Reconciled(t)
    /\ Len(pre.clients) = LowWorkers
    /\ Len(clients) = MaxWorkers
    /\ pre.clientCount = LowWorkers
    /\ clientCount = MaxWorkers

\* C20: when one run of failure() calls has started several retry()
\* goroutines and the first of them has reconnected at its first attempt and
\* returned, the next of them to get the lock returns at the failing guard:
\* it releases the lock at once instead of entering the loop and calling
\* clientsReset().
C20_SurplusAbsorbed ==
  [][(ev.op = "retry_return" /\ ev.surplus /\ pending' < pending)
       => (lock' = NoTask /\ Looping' = {})]_vars

=============================================================================
